---- MODULE Spec2Model ----
(***************************************************************************)
(* The orientation controller of the Earth component (Earth.tsx, the       *)
(* version with isFixed / forceNightTime / targetLocation).                *)
(*                                                                         *)
(* Units.  Angles and angular velocities are fixed-point integers in units *)
(* of 1e-3 rad, so the literals of the source become                       *)
(*   sensitivity 0.005 -> 5, velocityThreshold 0.001 -> 1,                 *)
(*   friction 0.98 -> 98/100, base rotation 0.025 rad/s -> 25.             *)
(* Frame deltas are integers in units of 1/DeltaDen second, and the angle  *)
(* of a rotation factor is in units of 1e-3/DeltaDen rad, so that          *)
(* speed * delta and delta * 0.025 stay on the grid.  Arcs between the     *)
(* orientation and the fixed-mode target (arc, and the angle of a factor   *)
(* toward the target) are whole degrees.                                   *)
(*                                                                         *)
(* Orientation.  mesh.quaternion is kept as the most recent incremental    *)
(* rotation premultiplied into it (a sequence of axis-angle factors, the   *)
(* leftmost applied last) plus a one-bit generation that flips at every    *)
(* mutation, so Orientation' = Orientation exactly when a step leaves the  *)
(* quaternion alone.  The arc to the target is kept beside it (arc): it is *)
(* Null (not known) after any mutation other than a slerp, and the first   *)
(* slerp of a run draws it from ArcChoices.                                *)
(***************************************************************************)
EXTENDS Integers, Sequences, FiniteSets, TLC

VARIABLES isFixed, forceNightTime, targetLocation, location, geoPending,
          hour, isNightTime, locationQuaternion, isDragging, lastPointerPos,
          angularVelocity, Orientation, arc, error

vars == <<isFixed, forceNightTime, targetLocation, location, geoPending,
          hour, isNightTime, locationQuaternion, isDragging, lastPointerPos,
          angularVelocity, Orientation, arc, error>>

propVars == <<isFixed, forceNightTime, targetLocation>>
nightVars == <<location, geoPending, hour, isNightTime>>
dragVars == <<isDragging, lastPointerPos>>
motionVars == <<angularVelocity, Orientation, arc, error>>

----------------------------------------------------------------------------
(* Bounds of the model *)

\* pointer coordinates: x ranges over 0..MaxPos, y over PointerRows
MaxPos == 1
PointerRows == {0, 1}
\* a frame's delta ranges over 1..MaxDelta, in units of 1/DeltaDen second
MaxDelta == 3
DeltaDen == 2
\* the hour the component is mounted in, where the clock is not driven
MountHour == 12
Deltas == 1..MaxDelta
Positions == [x : 0..MaxPos, y : PointerRows]
\* arcs (degrees) a first slerp may find between the orientation and the target
ArcChoices == {0, 8}
\* coordinates the geolocation provider may deliver / the host may pass
DeviceLocations == {[latitude |-> 60, longitude |-> 30]}
TargetLocations == {[latitude |-> 48, longitude |-> 2]}

(* Program constants *)
Sensitivity == 5
VelocityThreshold == 1
FrictionNum == 98
FrictionDen == 100
BaseRotationRate == 25
TransitionSpeed == 1
AxialTiltMilliRad == 1161
LatitudeOffset == 69
LongitudeOffset == 88
NightStartHour == 18
NightEndHour == 6
HoursPerDay == 24

Hours == 0..(HoursPerDay - 1)
Null == <<>>
Some(v) == <<v>>

----------------------------------------------------------------------------
(* Arithmetic helpers *)

Abs(a) == IF a < 0 THEN -a ELSE a

\* floating-point division kept to the fixed-point grid: truncation toward zero
TruncDiv(a, b) == IF a >= 0 THEN a \div b ELSE -((-a) \div b)

Dot(u, v) == u[1] * v[1] + u[2] * v[2] + u[3] * v[3]

\* Vector3.length(), on the fixed-point grid
Length(v) == CHOOSE s \in 0..(Abs(v[1]) + Abs(v[2]) + Abs(v[3])) :
                 s * s <= Dot(v, v) /\ (s + 1) * (s + 1) > Dot(v, v)

\* Vector3.multiplyScalar(num / den)
MultiplyScalar(v, num, den) ==
    <<TruncDiv(v[1] * num, den), TruncDiv(v[2] * num, den), TruncDiv(v[3] * num, den)>>

ZeroVector == <<0, 0, 0>>

----------------------------------------------------------------------------
(* Day / night *)

\* local-clock fallback: hour <= 6 || hour >= 18
NightHeuristic(h) == h <= NightEndHour \/ h >= NightStartHour

\* SunCalc.getTimes(now, latitude, longitude): the day's sunrise and sunset
\* instants, on the hour grid (longer days at the higher latitude)
SunTimes(loc) ==
    IF Abs(loc.latitude) < 45 THEN [sunrise |-> 6, sunset |-> 18]
                              ELSE [sunrise |-> 3, sunset |-> 21]

\* the body of the isNightTime memo, evaluated at clock reading h
ComputeIsNightTime(loc, h) ==
    IF loc = Null
    THEN NightHeuristic(h)
    ELSE LET times == SunTimes(loc[1])
         IN  h > times.sunset \/ h < times.sunrise

\* variant: the two flags combined with && instead of ||
NightTextureBothNeeded == isNightTime /\ forceNightTime

\* (isNightTime || forceNightTime) ? nightTexture : dayTexture
NightTexture == isNightTime \/ forceNightTime

----------------------------------------------------------------------------
(* Fixed-mode target *)

\* Euler angles (degrees, order XYZ) of the target quaternion
TargetQuat(coords) ==
    [x |-> -(LatitudeOffset - coords.latitude),
     y |-> -coords.longitude - LongitudeOffset,
     z |-> 0]

\* targetLocation || location, converted; Null when neither is present
QuaternionFor(target, loc) ==
    LET targetCoords == IF target # Null THEN target ELSE loc
    IN  IF targetCoords = Null THEN Null ELSE Some(TargetQuat(targetCoords[1]))

\* variant: the memo keyed on the targetLocation prop alone
UseMemoTargetPropOnly(memo, target, loc, newTarget, newLoc) ==
    IF newTarget # target THEN QuaternionFor(newTarget, newLoc) ELSE memo

\* useMemo(..., [location, targetLocation]) at a render: the body runs again
\* when a dependency differs from the previous render's, else the stored
\* value is kept
UseMemoTarget(memo, target, loc, newTarget, newLoc) ==
    IF <<newLoc, newTarget>> # <<loc, target>>
    THEN QuaternionFor(newTarget, newLoc)
    ELSE memo

----------------------------------------------------------------------------
(* Orientation *)

Factor(frame, axis, angle) == [frame |-> frame, axis |-> axis, angle |-> angle]

\* quaternion={axisRotation}: the tilt about Z the mesh is given as a prop
MeshQuaternionProp ==
    [rot |-> <<Factor("world", <<0, 0, 1>>, AxialTiltMilliRad * DeltaDen)>>, gen |-> 0]

IsIdentity(factors) == \A i \in 1..Len(factors) : factors[i].angle = 0

\* Quaternion.premultiply(q), q the product of the factors
Premultiply(o, factors) ==
    IF IsIdentity(factors) THEN o ELSE [rot |-> factors, gen |-> 1 - o.gen]

\* an arc folded back into 0..180 degrees
FoldArc(a) == LET m == Abs(a) % 360 IN IF m > 180 THEN 360 - m ELSE m

\* Quaternion.slerp(qb, t) seen along the great circle through both ends, d0
\* the arc between them: the signed arc left to the target (negative: past it).
\* t = 1 copies qb; otherwise the result sits at fraction t of the way, and t
\* is used as given.
SlerpRemaining(d0, delta) ==
    IF delta * TransitionSpeed = DeltaDen THEN 0
    ELSE TruncDiv(d0 * (DeltaDen - delta * TransitionSpeed), DeltaDen)

SlerpOrientation(o, d0, delta) ==
    Premultiply(o, <<Factor("target", ZeroVector, d0 - SlerpRemaining(d0, delta))>>)

----------------------------------------------------------------------------
(* Re-render (a prop or the location state changed) *)

\* The memoized values are recomputed from the new inputs; the mesh is handed
\* quaternion={axisRotation} again, which the renderer may or may not copy
\* into mesh.quaternion.
Rerender(newTarget, newLocation) ==
    \E o \in {Orientation, MeshQuaternionProp} :
        /\ Orientation' = o
        /\ locationQuaternion' = UseMemoTarget(locationQuaternion, targetLocation,
                                                location, newTarget, newLocation)
        /\ arc' = IF o = Orientation /\ locationQuaternion' = locationQuaternion
                  THEN arc ELSE Null

----------------------------------------------------------------------------
(* Initial state: just mounted, geolocation requested *)

Init ==
    /\ isFixed = FALSE
    /\ forceNightTime = FALSE
    /\ targetLocation = Null
    /\ location = Null
    /\ geoPending = TRUE
    /\ hour \in Hours
    /\ isNightTime = ComputeIsNightTime(Null, hour)
    /\ locationQuaternion = QuaternionFor(Null, Null)
    /\ isDragging = FALSE
    /\ lastPointerPos = Null
    /\ angularVelocity = ZeroVector
    /\ Orientation = MeshQuaternionProp
    /\ arc = Null
    /\ error = FALSE

\* the same, mounted at a given hour
InitAt(h) == Init /\ hour = h

----------------------------------------------------------------------------
(* Host inputs *)

\* variant: switching the mode also ends a drag in progress
SetIsFixedEndsDrag ==
    /\ isFixed' = ~isFixed
    /\ Rerender(targetLocation, location)
    /\ isDragging' = FALSE
    /\ lastPointerPos' = Null
    /\ UNCHANGED <<forceNightTime, targetLocation, nightVars, angularVelocity, error>>

SetIsFixed ==
    /\ isFixed' = ~isFixed
    /\ Rerender(targetLocation, location)
    /\ UNCHANGED <<forceNightTime, targetLocation, nightVars, dragVars,
                   angularVelocity, error>>

SetForceNightTime ==
    /\ forceNightTime' = ~forceNightTime
    /\ Rerender(targetLocation, location)
    /\ UNCHANGED <<isFixed, targetLocation, nightVars, dragVars,
                   angularVelocity, error>>

SetTargetLocation(t) ==
    /\ t # targetLocation
    /\ targetLocation' = t
    /\ Rerender(t, location)
    /\ UNCHANGED <<isFixed, forceNightTime, nightVars, dragVars,
                   angularVelocity, error>>

\* getCurrentPosition's success callback: setLocation({...})
GeoSuccess(loc) ==
    /\ geoPending
    /\ geoPending' = FALSE
    /\ location' = Some(loc)
    /\ isNightTime' = ComputeIsNightTime(Some(loc), hour)
    /\ Rerender(targetLocation, Some(loc))
    /\ UNCHANGED <<propVars, hour, dragVars, angularVelocity, error>>

\* getCurrentPosition's error callback: setLocation(null), the state it holds
GeoError ==
    /\ geoPending
    /\ geoPending' = FALSE
    /\ UNCHANGED <<propVars, location, hour, isNightTime, locationQuaternion,
                   dragVars, motionVars>>

\* the wall clock moves on; nothing in the component listens to it
ClockAdvance ==
    /\ hour' = (hour + 1) % HoursPerDay
    /\ UNCHANGED <<propVars, location, geoPending, isNightTime, locationQuaternion,
                   dragVars, motionVars>>

----------------------------------------------------------------------------
(* Pointer handlers *)

OnPointerDown(pos) ==
    IF isFixed
    THEN UNCHANGED vars
    ELSE /\ isDragging' = TRUE
         /\ lastPointerPos' = Some(pos)
         /\ UNCHANGED <<propVars, nightVars, locationQuaternion, motionVars>>

\* the incremental drag rotation qY * qX
DragQuat(angleX, angleY) ==
    <<Factor("world", <<0, 1, 0>>, angleY * DeltaDen),
      Factor("world", <<1, 0, 0>>, angleX * DeltaDen)>>

\* variant: the step's vector added to the velocity already there
DragVelocityAccumulated(angleX, angleY) ==
    <<angularVelocity[1] + angleY, angularVelocity[2] + angleX, 0>>

\* Vector3(angleY, angleX, 0).normalize().multiplyScalar(dragAngle)
DragVelocity(angleX, angleY) == <<angleY, angleX, 0>>

\* variant: the handler without its last assignment, lastPointerPos stays at
\* the position of the pointer-down
OnPointerMoveKeepsPosition(pos) ==
    IF isFixed \/ ~isDragging \/ lastPointerPos = Null
    THEN UNCHANGED vars
    ELSE LET deltaX == pos.x - lastPointerPos[1].x
             deltaY == pos.y - lastPointerPos[1].y
             angleX == deltaY * Sensitivity
             angleY == deltaX * Sensitivity
             o == Premultiply(Orientation, DragQuat(angleX, angleY))
         IN  /\ Orientation' = o
             /\ arc' = IF o = Orientation THEN arc ELSE Null
             /\ angularVelocity' = DragVelocity(angleX, angleY)
             /\ UNCHANGED <<propVars, nightVars, locationQuaternion, dragVars, error>>

\* variant: the handler without the fixed-mode test
OnPointerMoveUnguarded(pos) ==
    IF ~isDragging \/ lastPointerPos = Null
    THEN UNCHANGED vars
    ELSE LET deltaX == pos.x - lastPointerPos[1].x
             deltaY == pos.y - lastPointerPos[1].y
             angleX == deltaY * Sensitivity
             angleY == deltaX * Sensitivity
             o == Premultiply(Orientation, DragQuat(angleX, angleY))
         IN  /\ Orientation' = o
             /\ arc' = IF o = Orientation THEN arc ELSE Null
             /\ angularVelocity' = DragVelocity(angleX, angleY)
             /\ lastPointerPos' = Some(pos)
             /\ UNCHANGED <<propVars, nightVars, locationQuaternion, isDragging, error>>

OnPointerMove(pos) ==
    IF isFixed \/ ~isDragging \/ lastPointerPos = Null
    THEN UNCHANGED vars
    ELSE LET deltaX == pos.x - lastPointerPos[1].x
             deltaY == pos.y - lastPointerPos[1].y
             angleX == deltaY * Sensitivity
             angleY == deltaX * Sensitivity
             o == Premultiply(Orientation, DragQuat(angleX, angleY))
         IN  /\ Orientation' = o
             /\ arc' = IF o = Orientation THEN arc ELSE Null
             /\ angularVelocity' = DragVelocity(angleX, angleY)
             /\ lastPointerPos' = Some(pos)
             /\ UNCHANGED <<propVars, nightVars, locationQuaternion, isDragging, error>>

\* variant: release clears the flag but keeps the last pointer position
OnPointerUpKeepsPosition ==
    IF isFixed
    THEN UNCHANGED vars
    ELSE /\ isDragging' = FALSE
         /\ UNCHANGED <<propVars, nightVars, locationQuaternion, lastPointerPos,
                        motionVars>>

\* variant: release also stops the globe
OnPointerUpStopsSpin ==
    IF isFixed
    THEN UNCHANGED vars
    ELSE /\ isDragging' = FALSE
         /\ lastPointerPos' = Null
         /\ angularVelocity' = ZeroVector
         /\ UNCHANGED <<propVars, nightVars, locationQuaternion, Orientation,
                        arc, error>>

\* variant: release without the fixed-mode guard
OnPointerUpUnguarded ==
    /\ isDragging' = FALSE
    /\ lastPointerPos' = Null
    /\ UNCHANGED <<propVars, nightVars, locationQuaternion, motionVars>>

OnPointerUp ==
    IF isFixed
    THEN UNCHANGED vars
    ELSE /\ isDragging' = FALSE
         /\ lastPointerPos' = Null
         /\ UNCHANGED <<propVars, nightVars, locationQuaternion, motionVars>>

\* onPointerOut={onPointerUp}
OnPointerOut == OnPointerUp

----------------------------------------------------------------------------
(* Per-frame update *)

\* variant: the two tests in the other order, physics whenever no drag is
\* active and the fixed-target test only behind it
FrameBranchPhysicsFirst(fixed, target, dragging) ==
    IF ~dragging THEN "physics"
    ELSE IF fixed /\ target # Null THEN "slerp"
    ELSE "none"

\* variant: the fixed-target test without the check that a target exists
FrameBranchFixedOnly(fixed, target, dragging) ==
    IF fixed THEN "slerp"
    ELSE IF ~dragging THEN "physics"
    ELSE "none"

\* which branch of the useFrame callback runs
FrameBranch(fixed, target, dragging) ==
    IF fixed /\ target # Null THEN "slerp"
    ELSE IF ~dragging THEN "physics"
    ELSE "none"

\* speed > velocityThreshold
AboveThreshold(v) == Dot(v, v) > VelocityThreshold * VelocityThreshold

\* setFromAxisAngle(axis, speed * delta)
InertialQuat(v, delta) == <<Factor("world", v, Length(v) * delta)>>

\* variant: the friction factor scaled by the frame's delta
ApplyFrictionByDelta(v, delta) == MultiplyScalar(v, FrictionNum * delta, FrictionDen * DeltaDen)

\* angularVelocity.multiplyScalar(friction)
ApplyFriction(v, delta) == MultiplyScalar(v, FrictionNum, FrictionDen)

\* variant: the same angle every frame, whatever the frame's delta
IdleQuatPerFrame(delta) == <<Factor("tilt", <<0, 1, 0>>, BaseRotationRate)>>

\* rotation about (0,1,0) turned by axisRotation, by delta * 0.025
IdleQuat(delta) == <<Factor("tilt", <<0, 1, 0>>, BaseRotationRate * delta)>>

\* variant: the friction applied in every frame, whichever branch runs
TickFrictionEveryFrame(delta) ==
    LET branch == FrameBranch(isFixed, locationQuaternion, isDragging) IN
    /\ UNCHANGED <<propVars, nightVars, locationQuaternion, dragVars>>
    /\ IF branch = "slerp"
       THEN IF locationQuaternion = Null
            THEN /\ error' = TRUE
                 /\ UNCHANGED <<angularVelocity, Orientation, arc>>
            ELSE \E d0 \in (IF arc = Null THEN ArcChoices ELSE {arc[1]}) :
                 /\ Orientation' = (IF d0 = 0 THEN Orientation
                                    ELSE SlerpOrientation(Orientation, d0, delta))
                 /\ arc' = Some(IF d0 = 0 THEN 0 ELSE FoldArc(SlerpRemaining(d0, delta)))
                 /\ angularVelocity' = ApplyFriction(angularVelocity, delta)
                 /\ UNCHANGED error
       ELSE IF branch = "physics"
       THEN IF AboveThreshold(angularVelocity)
            THEN /\ Orientation' = Premultiply(Orientation, InertialQuat(angularVelocity, delta))
                 /\ angularVelocity' = ApplyFriction(angularVelocity, delta)
                 /\ arc' = Null
                 /\ UNCHANGED error
            ELSE /\ Orientation' = Premultiply(Orientation, IdleQuat(delta))
                 /\ arc' = Null
                 /\ UNCHANGED <<angularVelocity, error>>
       ELSE /\ angularVelocity' = ApplyFriction(angularVelocity, delta)
            /\ UNCHANGED <<Orientation, arc, error>>

Tick(delta) ==
    LET branch == FrameBranch(isFixed, locationQuaternion, isDragging) IN
    /\ UNCHANGED <<propVars, nightVars, locationQuaternion, dragVars>>
    /\ IF branch = "slerp"
       THEN IF locationQuaternion = Null
            THEN \* slerp(null, t) throws before it writes anything
                 /\ error' = TRUE
                 /\ UNCHANGED <<angularVelocity, Orientation, arc>>
            ELSE \E d0 \in (IF arc = Null THEN ArcChoices ELSE {arc[1]}) :
                 /\ Orientation' = (IF d0 = 0 THEN Orientation
                                    ELSE SlerpOrientation(Orientation, d0, delta))
                 /\ arc' = Some(IF d0 = 0 THEN 0 ELSE FoldArc(SlerpRemaining(d0, delta)))
                 /\ UNCHANGED <<angularVelocity, error>>
       ELSE IF branch = "physics"
       THEN IF AboveThreshold(angularVelocity)
            THEN /\ Orientation' = Premultiply(Orientation, InertialQuat(angularVelocity, delta))
                 /\ angularVelocity' = ApplyFriction(angularVelocity, delta)
                 /\ arc' = Null
                 /\ UNCHANGED error
            ELSE /\ Orientation' = Premultiply(Orientation, IdleQuat(delta))
                 /\ arc' = Null
                 /\ UNCHANGED <<angularVelocity, error>>
       ELSE UNCHANGED motionVars

----------------------------------------------------------------------------
(* Specifications *)

Next ==
    \/ SetIsFixed
    \/ \E t \in {Null} \cup {Some(c) : c \in TargetLocations} : SetTargetLocation(t)
    \/ \E loc \in DeviceLocations : GeoSuccess(loc)
    \/ GeoError
    \/ \E pos \in Positions : OnPointerDown(pos)
    \/ \E pos \in Positions : OnPointerMove(pos)
    \/ OnPointerUp
    \/ OnPointerOut
    \/ \E delta \in Deltas : Tick(delta)

TickStep == \E delta \in Deltas : Tick(delta)

PointerStep ==
    \/ \E pos \in Positions : OnPointerDown(pos)
    \/ \E pos \in Positions : OnPointerMove(pos)
    \/ OnPointerUp
    \/ OnPointerOut

\* The controller under pointer events, frames, the isFixed and targetLocation
\* props and the geolocation result, within the hour it was mounted in
\* (forceNightTime and the clock are driven in NightSpec).
Spec == InitAt(MountHour) /\ [][Next]_vars

\* The day/night inputs alone: the wall clock, the location, forceNightTime.
NextNight ==
    \/ SetForceNightTime
    \/ \E loc \in DeviceLocations : GeoSuccess(loc)
    \/ GeoError
    \/ ClockAdvance

NightSpec == Init /\ [][NextNight]_vars

\* Drag and inertia alone, with the render loop calling the frame callback
\* again and again.
NextInertia ==
    \/ SetIsFixed
    \/ \E pos \in Positions : OnPointerDown(pos)
    \/ \E pos \in Positions : OnPointerMove(pos)
    \/ OnPointerUp
    \/ \E delta \in Deltas : Tick(delta)

InertiaSpec == InitAt(MountHour) /\ [][NextInertia]_vars /\ WF_vars(TickStep)

----------------------------------------------------------------------------
(* Claims *)

HasTarget == locationQuaternion # Null
LastFrame == Orientation.rot[1].frame
\* the residual speed is above the threshold
Spinning == \E v \in {angularVelocity} : AboveThreshold(v)

\* C1: a tick takes exactly one branch, in priority order.  With isFixed and
\* a target it slerps (the arc to the target becomes known, the orientation,
\* if it moves, moves by a rotation toward the target) and touches nothing
\* else, even during a drag; otherwise during a drag it changes neither the
\* orientation nor the velocity; otherwise it applies the inertial rotation
\* about the velocity axis or the idle rotation about the tilted axis.
C1_BranchPriority ==
    [][TickStep =>
        /\ UNCHANGED <<isDragging, lastPointerPos>>
        /\ IF isFixed /\ HasTarget
           THEN /\ angularVelocity' = angularVelocity
                /\ arc' # Null
                /\ Orientation' # Orientation => Orientation'.rot[1].frame = "target"
           ELSE IF isDragging
           THEN /\ Orientation' = Orientation
                /\ angularVelocity' = angularVelocity
           ELSE /\ Orientation' # Orientation
                /\ Len(Orientation'.rot) = 1
                /\ IF AboveThreshold(angularVelocity)
                   THEN /\ Orientation'.rot[1].frame = "world"
                        /\ Orientation'.rot[1].axis = angularVelocity
                   ELSE /\ Orientation'.rot[1].frame = "tilt"
                        /\ angularVelocity' = angularVelocity
      ]_vars

\* C1 witness: a slerp step has been taken while a drag was active
C1_SlerpDuringDrag ==
    isFixed /\ HasTarget /\ isDragging /\ LastFrame = "target" /\ arc # Null

\* C2: DragState.active holds exactly when lastPointerPosition is present
C2_DragStateConsistent == isDragging <=> lastPointerPos # Null

\* C2 witness: a drag was made and released
C2_DragReleased ==
    ~isDragging /\ lastPointerPos = Null /\ angularVelocity # ZeroVector

\* C3: with isFixed false and no drag, a tick above the threshold scales the
\* velocity by the friction factor (up to the grid's rounding), whatever its
\* delta, so the speed strictly decreases; at or below the threshold a tick
\* applies the idle rotation and leaves the velocity alone; and the speed
\* does fall to the threshold unless a new drag or fixed mode intervenes.
C3_FrictionDecay ==
    /\ [][TickStep /\ ~isFixed /\ ~isDragging =>
            IF AboveThreshold(angularVelocity)
            THEN /\ \A i \in 1..3 :
                       /\ Abs(FrictionDen * angularVelocity'[i]
                                - FrictionNum * angularVelocity[i]) < FrictionDen
                       /\ Abs(angularVelocity'[i]) <= Abs(angularVelocity[i])
                 /\ Dot(angularVelocity', angularVelocity')
                        < Dot(angularVelocity, angularVelocity)
            ELSE /\ angularVelocity' = angularVelocity
                 /\ Orientation'.rot[1].frame = "tilt"
        ]_vars
    /\ (~isFixed /\ ~isDragging /\ Spinning) ~> (~Spinning \/ isDragging \/ isFixed)

\* C3 witness: the velocity left by a drag has decayed to the threshold and
\* the idle rotation has resumed
C3_DecayedToIdle ==
    /\ ~isFixed /\ ~isDragging
    /\ angularVelocity # ZeroVector /\ ~AboveThreshold(angularVelocity)
    /\ LastFrame = "tilt"

\* C4: in fixed mode with a target, a tick leaves the arc to the target no
\* larger than before and never carries the orientation past the target
C4_SlerpNeverOvershoots ==
    [][TickStep /\ isFixed /\ HasTarget /\ arc # Null =>
            /\ arc'[1] <= arc[1]
            /\ Orientation' # Orientation => Orientation'.rot[1].angle <= arc[1]
      ]_vars

\* C5: the velocity left by a purely horizontal drag step (a rotation about
\* the vertical axis only) has its dominant component on the vertical axis
C5_HorizontalDragSpinsAboutVertical ==
    (/\ Len(Orientation.rot) = 2
     /\ Orientation.rot[1].axis = <<0, 1, 0>> /\ Orientation.rot[1].angle # 0
     /\ Orientation.rot[2].angle = 0)
    => /\ Abs(angularVelocity[2]) > Abs(angularVelocity[1])
       /\ Abs(angularVelocity[2]) > Abs(angularVelocity[3])

\* C6: with forceNight false and no location, night holds exactly when the
\* local hour is before 6 or at/after 18
C6_LocalClockNight ==
    (~forceNightTime /\ location = Null)
    => (NightTexture <=> (hour < NightEndHour \/ hour >= NightStartHour))

\* C7: forceNight makes the night flag true whatever the location and the
\* clock; with forceNight off the flag is the location/clock-derived value,
\* which forcing and unforcing leave as it was
C7_ForceNightAlwaysNight ==
    /\ [](forceNightTime => NightTexture)
    /\ [](~forceNightTime => (NightTexture <=> isNightTime))
    /\ [][forceNightTime' # forceNightTime => isNightTime' = isNightTime]_vars

\* C7 witness: night is forced while the derived value says day, location known
C7_ForcedWhileDay ==
    forceNightTime /\ ~isNightTime /\ location # Null /\ NightTexture

\* C8: with forceNight false and a known location, the night flag is true
\* exactly when the current instant is after sunset or before sunrise there
C8_SolarNightFollowsClock ==
    (~forceNightTime /\ location # Null)
    => (NightTexture <=> (\/ hour > SunTimes(location[1]).sunset
                          \/ hour < SunTimes(location[1]).sunrise))

\* C9: while isFixed is true a pointer event changes nothing, and DragState
\* stays as it was over every step of the fixed interval
C9_FixedIgnoresPointer ==
    /\ [][isFixed /\ PointerStep => UNCHANGED vars]_vars
    /\ [][isFixed /\ isFixed' => UNCHANGED <<isDragging, lastPointerPos>>]_vars

\* C9 witness: fixed mode entered during a drag, frames have run, the drag
\* is still active with its last position
C9_StuckActive ==
    isFixed /\ isDragging /\ lastPointerPos # Null /\ arc # Null

\* C10: a tick with isFixed true and no target raises no error and does what
\* it does with isFixed false: nothing during a drag, otherwise the inertial
\* rotation with friction or the idle rotation
C10_FixedWithoutTargetDegrades ==
    [][TickStep /\ isFixed /\ ~HasTarget =>
            /\ ~error'
            /\ arc' = Null
            /\ IF isDragging
               THEN UNCHANGED <<Orientation, angularVelocity>>
               ELSE /\ Orientation' # Orientation
                    /\ IF AboveThreshold(angularVelocity)
                       THEN /\ Orientation'.rot[1].frame = "world"
                            /\ Orientation'.rot[1].axis = angularVelocity
                            /\ Dot(angularVelocity', angularVelocity')
                                   < Dot(angularVelocity, angularVelocity)
                       ELSE /\ Orientation'.rot[1].frame = "tilt"
                            /\ angularVelocity' = angularVelocity
      ]_vars

\* C10 witness: fixed mode without a target, the idle rotation running
C10_IdleWhileFixed ==
    isFixed /\ ~HasTarget /\ ~isDragging /\ LastFrame = "tilt" /\ ~error

\* C11: at every moment between frames the fixed-mode target is the
\* conversion of targetLocation when present, else of the device location,
\* else absent, so a tick in fixed mode slerps toward it as soon as either
\* exists, whenever the geolocation result arrived; and a geolocation failure
\* leaves the location unknown and changes no other state.
C11_TargetNeverStale ==
    /\ [](locationQuaternion =
              (IF targetLocation # Null THEN Some(TargetQuat(targetLocation[1]))
               ELSE IF location # Null THEN Some(TargetQuat(location[1]))
               ELSE Null))
    /\ [][TickStep /\ isFixed /\ (targetLocation # Null \/ location # Null) =>
            /\ arc' # Null
            /\ Orientation' # Orientation => Orientation'.rot[1].frame = "target"
        ]_vars
    /\ [][geoPending /\ ~geoPending' /\ location' = Null =>
            UNCHANGED <<propVars, location, hour, isNightTime, locationQuaternion,
                        dragVars, motionVars>>
        ]_vars

\* C11 witness: the device location has been delivered, no targetLocation is
\* supplied, and a fixed-mode tick has slerped toward the device's target
C11_SlerpTowardDevice ==
    /\ isFixed /\ targetLocation = Null /\ location # Null /\ ~geoPending
    /\ locationQuaternion = Some(TargetQuat(location[1]))
    /\ LastFrame = "target" /\ arc # Null

\* C12: with zero velocity, isFixed false and no drag, a tick of any delta
\* takes the idle branch: one rotation about the tilted vertical axis, always
\* the same axis, by delta times the base rate; the velocity stays zero, so
\* the next tick is in the same case and the inertial branch is never entered.
C12_IdleRotationConstantRate ==
    [][~isFixed /\ ~isDragging /\ angularVelocity = ZeroVector =>
            \A delta \in Deltas : Tick(delta) =>
                /\ Orientation'.rot =
                       <<Factor("tilt", <<0, 1, 0>>, BaseRotationRate * delta)>>
                /\ Orientation'.gen # Orientation.gen
                /\ angularVelocity' = ZeroVector
                /\ ~isFixed' /\ ~isDragging'
      ]_vars

\* C12 witness: never dragged, not fixed, and two idle ticks in a row have
\* turned the globe about the tilted axis
C12_IdlingSinceMount ==
    /\ ~isFixed /\ ~isDragging /\ lastPointerPos = Null
    /\ angularVelocity = ZeroVector
    /\ LastFrame = "tilt" /\ Orientation.gen = 0

\* C14: a pointer-move changes state only when DragState.active is true and
\* isFixed is false, and then what it changes is Orientation, AngularVelocity
\* and lastPointerPosition (which becomes the event's position); in every
\* other state, a move after release or leave included, it changes nothing.
C14_MoveOnlyWhileDragging ==
    [][\A pos \in Positions : OnPointerMove(pos) =>
            IF isDragging /\ ~isFixed
            THEN /\ lastPointerPos' = Some(pos)
                 /\ UNCHANGED <<propVars, nightVars, locationQuaternion,
                                isDragging, error>>
            ELSE UNCHANGED vars
      ]_vars

\* C14 witness: the globe was last turned by a drag step and the pointer has
\* been released since, the state in which a further move is ignored
C14_ReleasedAfterDrag ==
    /\ ~isFixed /\ ~isDragging /\ lastPointerPos = Null
    /\ Len(Orientation.rot) = 2 /\ angularVelocity # ZeroVector

\* C15: while isFixed is false, a pointer-down starts the drag and records
\* its position, a pointer-up or pointer-leave ends it and clears the
\* position, a move during the drag keeps it active and records the move's
\* position, and no other step (a tick, a render) starts or ends a drag or
\* touches the recorded position.
C15_DragInterval ==
    [][~isFixed =>
         /\ \A pos \in Positions :
               /\ OnPointerDown(pos) => isDragging' /\ lastPointerPos' = Some(pos)
               /\ OnPointerMove(pos) =>
                      IF isDragging
                      THEN isDragging' /\ lastPointerPos' = Some(pos)
                      ELSE UNCHANGED <<isDragging, lastPointerPos>>
         /\ OnPointerUp => ~isDragging' /\ lastPointerPos' = Null
         /\ OnPointerOut => ~isDragging' /\ lastPointerPos' = Null
         /\ TickStep => UNCHANGED <<isDragging, lastPointerPos>>
         /\ <<isDragging, lastPointerPos>>' # <<isDragging, lastPointerPos>>
                => PointerStep
      ]_vars

\* C15 witness: a drag in progress whose last event was a move to the far
\* column, the recorded position being that move's
C15_DraggingAfterMove ==
    /\ ~isFixed /\ isDragging
    /\ Len(Orientation.rot) = 2 /\ angularVelocity # ZeroVector
    /\ \E pos \in Positions : pos.x = MaxPos /\ lastPointerPos = Some(pos)

\* C16: after an effective pointer-move the velocity is made of that step's
\* two angles alone (the screen delta times the sensitivity): its squared
\* magnitude is angleX^2 + angleY^2 whatever the velocity was before, and a
\* step with zero delta leaves zero velocity.
C16_VelocityFromLastStep ==
    [][~isFixed /\ isDragging /\ lastPointerPos # Null =>
         \A pos \in Positions : OnPointerMove(pos) =>
             LET angleX == (pos.y - lastPointerPos[1].y) * Sensitivity
                 angleY == (pos.x - lastPointerPos[1].x) * Sensitivity
             IN  /\ Dot(angularVelocity', angularVelocity')
                        = angleX * angleX + angleY * angleY
                 /\ \A i \in 1..3 : angularVelocity'[i] \in {angleX, angleY, 0}
                 /\ pos = lastPointerPos[1] => angularVelocity' = ZeroVector
      ]_vars

\* C16 witness: a drag step turned the globe and a later step of the same
\* drag with zero delta has left zero velocity
C16_ZeroStepAfterDrag ==
    /\ ~isFixed /\ isDragging /\ lastPointerPos # Null
    /\ Len(Orientation.rot) = 2 /\ angularVelocity = ZeroVector

\* C17: the velocity changes only in two kinds of step: an effective
\* pointer-move, and a tick in the inertial branch, which scales every
\* component by the friction factor (up to the grid's rounding) so that the
\* magnitude goes down; pointer-down, release, leave, the isFixed and
\* targetLocation props, the geolocation result and slerp, idle and
\* mid-drag ticks leave it as it was.
C17_VelocityOnlyDecays ==
    [][angularVelocity' # angularVelocity =>
         \/ /\ ~isFixed /\ isDragging
            /\ \E pos \in Positions : OnPointerMove(pos)
         \/ /\ TickStep
            /\ ~(isFixed /\ HasTarget) /\ ~isDragging
            /\ AboveThreshold(angularVelocity)
            /\ Dot(angularVelocity', angularVelocity')
                   < Dot(angularVelocity, angularVelocity)
            /\ \A i \in 1..3 :
                   Abs(FrictionDen * angularVelocity'[i]
                         - FrictionNum * angularVelocity[i]) < FrictionDen
      ]_vars

\* C17 witness: released with the velocity of the last drag step intact, and
\* an inertial tick has since turned the globe about it and scaled it down,
\* still above the threshold
C17_SpinningAfterRelease ==
    /\ ~isDragging /\ lastPointerPos = Null /\ Spinning
    /\ LastFrame = "world" /\ Len(Orientation.rot) = 1
    /\ Orientation.rot[1].axis # angularVelocity
    /\ Orientation.rot[1].axis[3] = 0

\* C18: a drag that is active when isFixed is switched on stays active, with
\* its recorded position, through the whole fixed interval (a release in it
\* is ignored) and through the switch back off; in the state this leaves,
\* isFixed false with the drag active, a tick changes neither Orientation
\* nor AngularVelocity, a pointer-move to another position rotates the globe
\* and keeps the drag active, and only a pointer-up or pointer-leave arriving
\* while isFixed is false ends the drag.
C18_StuckDragAfterFixed ==
    [][/\ (isDragging /\ (isFixed \/ isFixed')) =>
              isDragging' /\ lastPointerPos' = lastPointerPos
       /\ (~isFixed /\ isDragging /\ TickStep) =>
              UNCHANGED <<Orientation, angularVelocity>>
       /\ (~isFixed /\ isDragging) =>
              \A pos \in Positions :
                  (OnPointerMove(pos) /\ Some(pos) # lastPointerPos) =>
                      Orientation' # Orientation /\ isDragging'
       /\ (isDragging /\ ~isDragging') =>
              ~isFixed /\ ~isFixed' /\ (OnPointerUp \/ OnPointerOut)
      ]_vars

\* C18 witness: a drag turned the globe, fixed mode was switched on and
\* slerped, and it has been switched off again with the drag still active
C18_StillDraggingAfterUnfix ==
    /\ ~isFixed /\ isDragging /\ lastPointerPos # Null
    /\ angularVelocity # ZeroVector
    /\ LastFrame = "target" /\ arc # Null

\* C19: a tick in the slerp branch or during a drag applies no friction, and
\* neither entering or leaving fixed mode nor a pointer-down or a release
\* touches the velocity, so a residual velocity above the threshold is the
\* same after the interruption as before; the first inertial tick after it
\* turns the globe about that velocity by its full speed times the delta.
C19_NoFrictionWhileInterrupted ==
    [][/\ (TickStep /\ ((isFixed /\ HasTarget) \/ isDragging)) =>
              angularVelocity' = angularVelocity
       /\ (isFixed' # isFixed) => angularVelocity' = angularVelocity
       /\ (\E pos \in Positions : OnPointerDown(pos)) =>
              angularVelocity' = angularVelocity
       /\ (OnPointerUp \/ OnPointerOut) => angularVelocity' = angularVelocity
       /\ (~(isFixed /\ HasTarget) /\ ~isDragging /\ AboveThreshold(angularVelocity)) =>
              \A delta \in Deltas : Tick(delta) =>
                  Orientation'.rot =
                      <<Factor("world", angularVelocity, Length(angularVelocity) * delta)>>
      ]_vars

\* C19 witness: fixed mode was entered with a residual velocity above the
\* threshold and slerp ticks have run; the velocity is still above it
C19_ResidualSpinWhileFixed ==
    /\ isFixed /\ HasTarget /\ ~isDragging /\ lastPointerPos = Null
    /\ Spinning /\ LastFrame = "target" /\ arc # Null

====
